---- MODULE Spec2Model ----
(***************************************************************************)
(* A model of textrank/sparse_graph.py: the SparseGraph store (add_node,   *)
(* link) and its page_rank method.                                         *)
(*                                                                         *)
(* Python floats are modelled as exact rationals <<num, den>> (den > 0, in *)
(* lowest terms); rounding is outside the model.  A defaultdict is a       *)
(* function whose DOMAIN is its key set, so that a lookup that creates a   *)
(* key is visible.  An Edge(to_node, weight) is the pair <<node, weight>>. *)
(***************************************************************************)
EXTENDS Integers, Sequences, FiniteSets

\* ---------------------------------------------------------------- bounds
\* The most edge entries a graph is built with, and the largest max_iteration.
MaxEdges == 3
MaxIter == 3

\* The node identifiers and edge weights the callers draw from.
Nodes == {1, 2}
Weights == {0, 1, 2}
Edges == Nodes \X Weights

\* ------------------------------------------------------------- rationals
Abs(x) == IF x < 0 THEN -x ELSE x

RECURSIVE GCD(_, _)
GCD(a, b) == IF b = 0 THEN a ELSE GCD(b, a % b)

Rat(n, d) ==
    LET s == IF d < 0 THEN -1 ELSE 1
        g == GCD(Abs(n), Abs(d))
    IN  <<(s * n) \div g, (s * d) \div g>>

Zero == <<0, 1>>
One == <<1, 1>>
FromInt(n) == <<n, 1>>
RAdd(a, b) == Rat(a[1] * b[2] + b[1] * a[2], a[2] * b[2])
RSub(a, b) == Rat(a[1] * b[2] - b[1] * a[2], a[2] * b[2])
RMul(a, b) == Rat(a[1] * b[1], a[2] * b[2])
RDiv(a, b) == Rat(a[1] * b[2], a[2] * b[1])
RAbs(a) == <<Abs(a[1]), a[2]>>
RLt(a, b) == a[1] * b[2] < b[1] * a[2]
RLe(a, b) == a[1] * b[2] <= b[1] * a[2]
RMax(a, b) == IF RLt(a, b) THEN b ELSE a

\* The parameter values page_rank is called with.
Dampings == {Zero, <<1, 2>>, One}
Tolerances == {Zero, <<1, 4>>, One}
MaxIterations == 0..MaxIter

\* ----------------------------------------------------------------- state
VARIABLES
    nodes,            \* self.nodes
    link_out,         \* self.link_out: node -> set of Edge(to_node, weight)
    link_in,          \* self.link_in: node -> set of Edge(from_node, weight)
    inserted,         \* the nodes in the order they first entered self.nodes
    pc,               \* "idle" | "loop" | "returned" | "raised"
    max_iteration, tolerance, dampling_factor,   \* page_rank's parameters
    pr,               \* the score vector
    diff,             \* the difference between the last two vectors
    i,                \* the number of iterations performed
    err,              \* the exception page_rank raised, or "none"
    result            \* the list page_rank returned

vars == <<nodes, link_out, link_in, inserted, pc, max_iteration, tolerance,
          dampling_factor, pr, diff, i, err, result>>

\* ------------------------------------------------------------ defaultdict
EmptyDict == [k \in {} |-> {}]

\* defaultdict(set).__getitem__: the value, and the dict after the lookup.
DefaultGet(d, k) == IF k \in DOMAIN d THEN d[k] ELSE {}
Touch(d, k) ==
    IF k \in DOMAIN d THEN d
    ELSE [x \in DOMAIN d \cup {k} |-> IF x = k THEN {} ELSE d[x]]

RECURSIVE TouchAll(_, _)
TouchAll(d, ks) ==
    IF ks = {} THEN d
    ELSE LET k == CHOOSE x \in ks : TRUE IN TouchAll(Touch(d, k), ks \ {k})

\* Faulty variant: the new entry replaces the entries for the same node.
DictAddLossy(d, k, e) ==
    [x \in DOMAIN d \cup {k} |->
        IF x = k THEN {f \in DefaultGet(d, k) : f[1] # e[1]} \cup {e} ELSE d[x]]
\* d[k].add(e)
DictAdd(d, k, e) ==
    [x \in DOMAIN d \cup {k} |-> IF x = k THEN DefaultGet(d, k) \cup {e} ELSE d[x]]

\* dict.get(k, []): the value; the dict itself is left as it is.
DictGet(d, k) == IF k \in DOMAIN d THEN d[k] ELSE {}
\* Faulty variant: the lookup d[k] in place of d.get(k, []), which creates the key.
AfterGetInserting(d, ks) == TouchAll(d, ks)
\* The dict after d.get(k, []) for every k of ks.
AfterGet(d, ks) == d

\* ------------------------------------------------------------ Graph Store
\* Faulty variant: to_node is not added to self.nodes.
NodesAddFromOnly(ns, from_node, to_node) == ns \cup {from_node}
\* self.nodes.add(from_node); self.nodes.add(to_node)
NodesAdd(ns, from_node, to_node) == (ns \cup {from_node}) \cup {to_node}

\* The graph after self.link(from_node, to_node, weight).
link(g, from_node, to_node, weight) ==
    [nodes    |-> NodesAdd(g.nodes, from_node, to_node),
     link_out |-> DictAdd(g.link_out, from_node, <<to_node, weight>>),
     link_in  |-> DictAdd(g.link_in, to_node, <<from_node, weight>>)]

G == [nodes |-> nodes, link_out |-> link_out, link_in |-> link_in]

\* The insertion history after n enters self.nodes (kept only on first entry).
Append1(s, n) == IF \E k \in 1..Len(s) : s[k] = n THEN s ELSE Append(s, n)

EdgeCount(lo) ==
    Cardinality({<<s, e>> \in Nodes \X Edges : s \in DOMAIN lo /\ e \in lo[s]})

Idle == pc = "idle"

NoLocals ==
    /\ max_iteration' = 0
    /\ tolerance' = Zero
    /\ dampling_factor' = Zero
    /\ pr' = EmptyDict
    /\ diff' = Zero
    /\ i' = 0
    /\ err' = "none"
    /\ result' = <<>>

add_node(n) ==
    /\ Idle
    /\ nodes' = nodes \cup {n}
    /\ inserted' = Append1(inserted, n)
    /\ pc' = "idle"
    /\ NoLocals
    /\ UNCHANGED <<link_out, link_in>>

Link(from_node, to_node, weight) ==
    /\ Idle
    /\ \/ <<to_node, weight>> \in DefaultGet(link_out, from_node)
       \/ EdgeCount(link_out) < MaxEdges
    /\ LET g == link(G, from_node, to_node, weight) IN
        /\ nodes' = g.nodes
        /\ link_out' = g.link_out
        /\ link_in' = g.link_in
    /\ inserted' = Append1(Append1(inserted, from_node), to_node)
    /\ pc' = "idle"
    /\ NoLocals

Init ==
    /\ nodes = {}
    /\ link_out = EmptyDict
    /\ link_in = EmptyDict
    /\ inserted = <<>>
    /\ pc = "idle"
    /\ max_iteration = 0
    /\ tolerance = Zero
    /\ dampling_factor = Zero
    /\ pr = EmptyDict
    /\ diff = Zero
    /\ i = 0
    /\ err = "none"
    /\ result = <<>>

\* ------------------------------------------------------------ Rank Engine
RECURSIVE SumWeights(_)
SumWeights(es) ==
    IF es = {} THEN 0
    ELSE LET e == CHOOSE x \in es : TRUE IN e[2] + SumWeights(es \ {e})

\* init_val = 1 / N
init_val(N) == Rat(1, N)

\* Faulty variant: the tax is not scaled by 1 - dampling_factor.
TaxNoDamping(d, N) == init_val(N)
\* tax = (1 - dampling_factor) * init_val
Tax(d, N) == RMul(RSub(One, d), init_val(N))

\* denominator = sum(e.weight for e in self.link_out[node])
Denominator(lo, node) == SumWeights(DefaultGet(lo, node))

\* t: the sum, over the entries (node, weight) of link_in.get(v, []), of
\* weight * pr[node] / denominator
RECURSIVE SumTerms(_, _, _)
SumTerms(es, p, lo) ==
    IF es = {} THEN Zero
    ELSE LET e == CHOOSE x \in es : TRUE
         IN  RAdd(RDiv(RMul(FromInt(e[2]), p[e[1]]), FromInt(Denominator(lo, e[1]))),
                  SumTerms(es \ {e}, p, lo))

\* Faulty variant: t is not scaled by dampling_factor.
iter_compute_new_pr_undamped(p, lo, li, d, tax) ==
    [v \in DOMAIN p |-> RAdd(SumTerms(DictGet(li, v), p, lo), tax)]
\* new_pr[v] = t * dampling_factor + tax, for every v of pr.keys()
iter_compute_new_pr(p, lo, li, d, tax) ==
    [v \in DOMAIN p |-> RAdd(RMul(SumTerms(DictGet(li, v), p, lo), d), tax)]

\* The nodes whose link_out entry one pass of iter_compute_new_pr looks up.
Accessed(p, li) == {e[1] : e \in UNION {DictGet(li, v) : v \in DOMAIN p}}

\* The pass divides by a zero denominator: Python raises ZeroDivisionError.
ZeroDenominators(p, lo, li) == {u \in Accessed(p, li) : Denominator(lo, u) = 0}

\* max(abs(old_pr[node] - new_pr[node]) for node in nodes)
RECURSIVE compute_diff(_, _, _)
compute_diff(old_pr, new_pr, ns) ==
    LET n == CHOOSE x \in ns : TRUE
        a == RAbs(RSub(old_pr[n], new_pr[n]))
    IN  IF ns = {n} THEN a ELSE RMax(a, compute_diff(old_pr, new_pr, ns \ {n}))

\* Faulty variant: diff starts at 0.0.
InitDiffZero == Zero
\* diff: float = 1.0
InitDiff == One

\* Faulty variant: the two tests joined by or.
LoopCondOr(k, mi, df, tol) == k < mi \/ RLt(tol, df)
\* while i < max_iteration and diff > tolerance
LoopCond(k, mi, df, tol) == k < mi /\ RLt(tol, df)

\* The orders in which a set can be iterated.
Perms(S) ==
    {s \in [1..Cardinality(S) -> S] : \A a, b \in 1..Cardinality(S) : s[a] = s[b] => a = b}

\* sorted(items, key=itemgetter(1), reverse=True): stable, so equal scores keep
\* the order of items.
RECURSIVE InsertDesc(_, _)
InsertDesc(s, x) ==
    IF s = <<>> THEN <<x>>
    ELSE IF RLt(s[1][2], x[2]) THEN <<x>> \o s
    ELSE <<s[1]>> \o InsertDesc(Tail(s), x)

RECURSIVE Sorted(_, _)
Sorted(order, p) ==
    IF order = <<>> THEN <<>>
    ELSE LET k == Len(order)
         IN  InsertDesc(Sorted(SubSeq(order, 1, k - 1), p), <<order[k], p[order[k]]>>)

\* g.page_rank(mi, tol, d), up to the loop's first test.
PageRankCall(mi, tol, d) ==
    /\ Idle
    /\ max_iteration' = mi
    /\ tolerance' = tol
    /\ dampling_factor' = d
    /\ i' = 0
    /\ result' = <<>>
    /\ IF nodes = {}
       THEN /\ pc' = "raised"
            /\ err' = "ZeroDivisionError"
            /\ pr' = EmptyDict
            /\ diff' = Zero
       ELSE /\ pc' = "loop"
            /\ err' = "none"
            /\ pr' = [n \in nodes |-> init_val(Cardinality(nodes))]
            /\ diff' = InitDiff
    /\ UNCHANGED <<nodes, link_out, link_in, inserted>>

\* One pass of the while loop's body.
Iterate ==
    /\ pc = "loop"
    /\ LoopCond(i, max_iteration, diff, tolerance)
    /\ link_in' = AfterGet(link_in, DOMAIN pr)
    /\ IF ZeroDenominators(pr, link_out, link_in) # {}
       THEN /\ pc' = "raised"
            /\ err' = "ZeroDivisionError"
            /\ \E S \in SUBSET Accessed(pr, link_in) :
                  /\ S \cap ZeroDenominators(pr, link_out, link_in) # {}
                  /\ link_out' = TouchAll(link_out, S)
            /\ UNCHANGED <<pr, diff, i>>
       ELSE LET _pr == iter_compute_new_pr(pr, link_out, link_in, dampling_factor,
                                           Tax(dampling_factor, Cardinality(nodes)))
            IN  /\ pr' = _pr
                /\ diff' = compute_diff(_pr, pr, nodes)
                /\ i' = i + 1
                /\ pc' = "loop"
                /\ err' = "none"
                /\ link_out' = TouchAll(link_out, Accessed(pr, link_in))
    /\ UNCHANGED <<nodes, inserted, max_iteration, tolerance, dampling_factor, result>>

\* The loop's test fails: return sorted(pr.items(), ...).
Return ==
    /\ pc = "loop"
    /\ ~LoopCond(i, max_iteration, diff, tolerance)
    /\ \E order \in Perms(nodes) : result' = Sorted(order, pr)
    /\ pc' = "returned"
    /\ UNCHANGED <<nodes, link_out, link_in, inserted, max_iteration, tolerance,
                   dampling_factor, pr, diff, i, err>>

\* The caller takes the outcome of page_rank and goes on using the graph.
Resume ==
    /\ pc \in {"returned", "raised"}
    /\ pc' = "idle"
    /\ NoLocals
    /\ UNCHANGED <<nodes, link_out, link_in, inserted>>

Next ==
    \/ \E n \in Nodes : add_node(n)
    \/ \E a \in Nodes, b \in Nodes, w \in Weights : Link(a, b, w)
    \/ \E mi \in MaxIterations, tol \in Tolerances, d \in Dampings : PageRankCall(mi, tol, d)
    \/ Iterate
    \/ Return
    \/ Resume

Spec == Init /\ [][Next]_vars
\* ================================================================ claims
OutEntries(s) == DefaultGet(link_out, s)
InEntries(t) == DefaultGet(link_in, t)
N == Cardinality(nodes)

\* The sum of the weights of all of u's outgoing entries, weight by weight.
RECURSIVE WeightTotal(_, _)
WeightTotal(u, ws) ==
    IF ws = {} THEN 0
    ELSE LET w == CHOOSE x \in ws : TRUE
         IN  w * Cardinality({t \in Nodes : <<t, w>> \in OutEntries(u)})
             + WeightTotal(u, ws \ {w})

\* The sum over the pairs <<u, w>> of S of w * p[u] / (u's outgoing weight total).
RECURSIVE RawInflow(_, _)
RawInflow(S, p) ==
    IF S = {} THEN Zero
    ELSE LET e == CHOOSE x \in S : TRUE
         IN  RAdd(RDiv(RMul(FromInt(e[2]), p[e[1]]), FromInt(WeightTotal(e[1], Weights))),
                  RawInflow(S \ {e}, p))

RECURSIVE RSumOver(_, _)
RSumOver(p, ns) ==
    IF ns = {} THEN Zero
    ELSE LET n == CHOOSE x \in ns : TRUE IN RAdd(p[n], RSumOver(p, ns \ {n}))

\* C1: every iteration gives every node v the score
\* damping_factor * (sum over v's incoming entries (u, weight) of
\* weight * score(u) / (sum of u's outgoing weights)) + (1 - damping_factor) * (1/N),
\* score being the previous vector, which starts at 1/N everywhere; a node with
\* no incoming edge gets exactly (1 - damping_factor)/N.
C1_UpdateFormula ==
    [][/\ (pc = "idle" /\ pc' = "loop") =>
              \A v \in nodes : pr'[v] = Rat(1, N)
       /\ (pc = "loop" /\ pc' = "loop") =>
              \A v \in nodes :
                 /\ pr'[v] = RAdd(RMul(dampling_factor,
                                       RawInflow({e \in Nodes \X Weights :
                                                    <<v, e[2]>> \in OutEntries(e[1])}, pr)),
                                  RMul(RSub(One, dampling_factor), Rat(1, N)))
                 /\ InEntries(v) = {} =>
                        pr'[v] = RDiv(RSub(One, dampling_factor), FromInt(N))
      ]_vars

\* An iteration has run on a graph where a node has two incoming entries and
\* another node has none.
C1_Witness ==
    /\ pc = "loop"
    /\ i >= 1
    /\ dampling_factor = <<1, 2>>
    /\ \E v \in nodes : Cardinality(InEntries(v)) >= 2
    /\ \E v \in nodes : InEntries(v) = {}

IsRankingOf(res, p) ==
    /\ Len(res) = Cardinality(DOMAIN p)
    /\ \A n \in DOMAIN p : \E k \in 1..Len(res) : res[k] = <<n, p[n]>>

\* C2: page_rank never performs more than max_iteration iterations, never
\* performs an iteration after one whose difference was <= tolerance, stops
\* only when the difference is <= tolerance or max_iteration iterations have
\* run, and at the cap returns the last computed vector without raising.
C2_Stopping ==
    [][/\ pc' \in {"loop", "returned"} => i' <= max_iteration'
       /\ (pc = "loop" /\ pc' = "loop") =>
              /\ i' = i + 1
              /\ i < max_iteration
              /\ RLt(tolerance, diff)
       /\ (pc = "loop" /\ pc' = "returned") =>
              /\ i = max_iteration \/ RLe(diff, tolerance)
              /\ i' = i
              /\ IsRankingOf(result', pr)
              /\ err' = "none"
       /\ (pc = "loop" /\ i >= max_iteration) => pc' = "returned"
      ]_vars

\* The cap was reached with the difference still above the tolerance.
C2_Witness ==
    /\ pc = "returned"
    /\ i = max_iteration
    /\ i >= 2
    /\ RLt(tolerance, diff)
    /\ err = "none"
    /\ IsRankingOf(result, pr)

\* C3: page_rank on a graph with no node raises EmptyGraphError at once, with
\* no iteration performed and no ranking returned.
C3_EmptyGraphError ==
    (pc \in {"raised", "returned", "loop"} /\ nodes = {}) =>
        /\ pc = "raised"
        /\ err = "EmptyGraphError"
        /\ i = 0
        /\ result = <<>>

HasSinkOrZeroSum ==
    \E u \in nodes : OutEntries(u) = {} \/ WeightTotal(u, Weights) = 0

\* C4: on a graph with a node whose outgoing weights sum to zero, or with no
\* outgoing edge, page_rank raises no division error.
C4_NoDivisionError ==
    HasSinkOrZeroSum => ~(pc = "raised" /\ err = "ZeroDivisionError")

\* C5: the two indices are in sync and closed over the node set: (t, w) is in
\* link_out[s] iff (s, w) is in link_in[t], and every key and every node inside
\* an entry of either index is in nodes.
C5_InSyncAndClosed ==
    /\ \A s \in Nodes, t \in Nodes, w \in Weights :
          <<t, w>> \in OutEntries(s) <=> <<s, w>> \in InEntries(t)
    /\ DOMAIN link_out \subseteq nodes
    /\ DOMAIN link_in \subseteq nodes
    /\ \A k \in DOMAIN link_out : \A e \in link_out[k] : e[1] \in nodes
    /\ \A k \in DOMAIN link_in : \A e \in link_in[k] : e[1] \in nodes

\* Both nodes are linked, one of them with two outgoing entries.
C5_Witness ==
    /\ nodes = Nodes
    /\ \E s \in nodes : Cardinality(OutEntries(s)) >= 2
    /\ \E s \in nodes, w \in Weights : <<s, w>> \in OutEntries(s)

\* C6: no step of page_rank changes nodes, link_out or link_in, key sets
\* included.
C6_GraphUnchanged ==
    [][pc' # "idle" =>
          /\ nodes' = nodes
          /\ link_out' = link_out
          /\ DOMAIN link_out' = DOMAIN link_out
          /\ link_in' = link_in
          /\ DOMAIN link_in' = DOMAIN link_in
      ]_vars

\* page_rank has iterated and returned on a graph with an edge, a node without
\* outgoing edges and a node without incoming edges.
C6_Witness ==
    /\ pc = "returned"
    /\ i >= 1
    /\ \E s \in nodes : OutEntries(s) # {}
    /\ \E s \in nodes : s \notin DOMAIN link_out
    /\ \E s \in nodes : s \notin DOMAIN link_in

Pos(s, n) == CHOOSE k \in 1..Len(s) : s[k] = n

\* C7: the returned sequence is descending by score, and nodes with equal
\* scores are in the order of their first insertion into the graph.
C7_TiesInInsertionOrder ==
    pc = "returned" =>
        \A a \in 1..Len(result), b \in 1..Len(result) :
            a < b =>
               /\ RLe(result[b][2], result[a][2])
               /\ result[a][2] = result[b][2] =>
                      Pos(inserted, result[a][1]) < Pos(inserted, result[b][1])

\* C8: with non-negative weights, a positive outgoing weight sum at every
\* linked node and damping_factor in [0, 1], every vector of page_rank has each
\* score in [0, 1] and the sum of the scores in [0, N].
C8_ScoresBounded ==
    (/\ pc \in {"loop", "returned"}
     /\ \A u \in nodes : \A e \in OutEntries(u) : e[2] >= 0
     /\ \A u \in nodes : OutEntries(u) # {} => WeightTotal(u, Weights) > 0
     /\ RLe(Zero, dampling_factor) /\ RLe(dampling_factor, One)) =>
        /\ \A v \in nodes : RLe(Zero, pr[v]) /\ RLe(pr[v], One)
        /\ RLe(Zero, RSumOver(pr, nodes))
        /\ RLe(RSumOver(pr, nodes), FromInt(N))

\* Two iterations have run on a graph with edges, and the scores differ.
C8_Witness ==
    /\ pc = "loop"
    /\ i >= 2
    /\ nodes = Nodes
    /\ \A u \in nodes : OutEntries(u) # {} /\ WeightTotal(u, Weights) > 0
    /\ \E u \in nodes, v \in nodes : RLt(pr[u], pr[v])

SingleIsolated ==
    /\ Cardinality(nodes) = 1
    /\ \A n \in Nodes : OutEntries(n) = {} /\ InEntries(n) = {}

\* C9 as stated: a single isolated node is returned with score exactly 1, in
\* zero iterations.
C9_ScoreOneInZeroIterations ==
    (pc = "returned" /\ SingleIsolated) =>
        /\ i = 0
        /\ \E n \in nodes : result = <<<<n, One>>>>

\* C9 as amended: a single isolated node is returned with score 1 exactly when
\* no iteration runs, which happens exactly when max_iteration <= 0 or
\* tolerance >= 1 (diff starts at 1.0); otherwise at least one iteration runs
\* and the score is exactly 1 - damping_factor.
C9_ScoreAfterFirstIteration ==
    (pc = "returned" /\ SingleIsolated) =>
        /\ i = 0 <=> (max_iteration <= 0 \/ RLe(One, tolerance))
        /\ \E n \in nodes :
              result = <<<<n, IF i = 0 THEN One ELSE RSub(One, dampling_factor)>>>>

\* A single isolated node was ranked after at least one iteration.
C9_Witness ==
    /\ pc = "returned"
    /\ SingleIsolated
    /\ i >= 1
    /\ dampling_factor = <<1, 2>>

\* C10: link(A, B, w) on a graph that already holds that entry changes nothing,
\* and link(A, B, w2) on a graph that holds (A, B, w), w2 # w, leaves both
\* (B, w) and (B, w2) in link_out[A] and both (A, w) and (A, w2) in link_in[B].
C10_LinkIdempotentNoOverwrite ==
    [][\A a \in Nodes, b \in Nodes, w \in Weights :
          <<b, w>> \in OutEntries(a) =>
              /\ Link(a, b, w) =>
                    nodes' = nodes /\ link_out' = link_out /\ link_in' = link_in
              /\ \A w2 \in Weights \ {w} :
                    Link(a, b, w2) =>
                       /\ {<<b, w>>, <<b, w2>>} \subseteq link_out'[a]
                       /\ {<<a, w>>, <<a, w2>>} \subseteq link_in'[b]
      ]_vars

\* An ordered pair of nodes is linked with two different weights.
C10_Witness ==
    \E a \in Nodes, b \in Nodes, w \in Weights, w2 \in Weights :
        /\ w # w2
        /\ {<<b, w>>, <<b, w2>>} \subseteq OutEntries(a)
        /\ {<<a, w>>, <<a, w2>>} \subseteq InEntries(b)
====
